---- MODULE Spec2Model ----
(***************************************************************************)
(* Model of the chapter-2 exercises of from-zero-to-halo2:                 *)
(*   - exercises/integration.rs : struct Student and its methods, driven   *)
(*     by a caller that owns a roster (Vec<Student>) as main does;         *)
(*   - exercises/functions.rs   : is_prime, with its trial-division loop.  *)
(*                                                                         *)
(* f64 is IEEE 754 binary64: every sum and quotient is rounded to nearest,  *)
(* ties to even, on 53-bit significands held as sequences of limbs; signed *)
(* zeros, subnormals, the infinities and NaN are values of the model.      *)
(* format!'s rendering of a number into digits is not modelled: the text   *)
(* of a report carries the f64 value itself under its {} or {:?}.          *)
(***************************************************************************)
EXTENDS Integers, Sequences, FiniteSets, TLC

VARIABLES
    students,   \* main's roster: Vec<Student>
    call,       \* the last method call made on the roster and what it returned
    shown,      \* per student: the texts the last two reports returned since
                \* the student's last successful add_grade (what the caller
                \* has displayed), oldest first
    l_avg,      \* letter mapping: the average handed to the match
    l_letter,   \* letter mapping: the char it produced ("" before the call)
    p_n,        \* is_prime: the argument n
    p_i,        \* is_prime: the loop variable i
    p_pc,       \* is_prime: position in the body ("idle", "start", "loop", "done")
    p_ret       \* is_prime: the returned Result<bool, String>

vars == <<students, call, shown, l_avg, l_letter, p_n, p_i, p_pc, p_ret>>

----------------------------------------------------------------------------
(* Bounds of the model *)

\* cap on the number of grades recorded in the whole roster, for the scores of
\* main (which records four)
MaxGrades == 4

\* the same cap for the scores at the limits of the range
MaxEdgeGrades == 3

\* the longest history of a student whose reports are compared
MaxReportGrades == 2

\* the averages tried on the letter mapping are the quotients k / d, d <= AvgDen
AvgDen == 2

\* is_prime is tried on every n in -MaxPrimeN .. MaxPrimeN
MaxPrimeN == 150

----------------------------------------------------------------------------
(* Natural numbers of any size: little-endian sequences of limbs below     *)
(* Base, without leading zero limbs; <<>> is zero.  They hold the 53-bit    *)
(* significands of binary64 and the exact intermediate results.            *)

Base == 2^15

Max(x, y) == IF x >= y THEN x ELSE y
Min(x, y) == IF x <= y THEN x ELSE y
Abs(x) == IF x < 0 THEN -x ELSE x

RECURSIVE BigNorm(_)
BigNorm(a) ==
    IF a = <<>> THEN <<>>
    ELSE IF a[Len(a)] = 0 THEN BigNorm(SubSeq(a, 1, Len(a) - 1)) ELSE a

RECURSIVE BigFromInt(_)
BigFromInt(n) == IF n = 0 THEN <<>> ELSE <<n % Base>> \o BigFromInt(n \div Base)

\* the value of a, for a below 2^30
RECURSIVE BigToInt(_)
BigToInt(a) == IF a = <<>> THEN 0 ELSE Head(a) + Base * BigToInt(Tail(a))

RECURSIVE BigAddC(_, _, _)
BigAddC(a, b, c) ==
    IF a = <<>> /\ b = <<>> THEN (IF c = 0 THEN <<>> ELSE <<c>>)
    ELSE LET x == (IF a = <<>> THEN 0 ELSE Head(a))
                  + (IF b = <<>> THEN 0 ELSE Head(b)) + c
         IN  <<x % Base>> \o BigAddC(IF a = <<>> THEN <<>> ELSE Tail(a),
                                     IF b = <<>> THEN <<>> ELSE Tail(b),
                                     x \div Base)

BigAdd(a, b) == BigAddC(a, b, 0)

RECURSIVE BigSubB(_, _, _)
BigSubB(a, b, c) ==
    IF a = <<>> THEN <<>>
    ELSE LET x == Head(a) - (IF b = <<>> THEN 0 ELSE Head(b)) - c
         IN  <<x % Base>> \o BigSubB(Tail(a),
                                     IF b = <<>> THEN <<>> ELSE Tail(b),
                                     IF x < 0 THEN 1 ELSE 0)

\* a - b for a >= b
BigSub(a, b) == BigNorm(BigSubB(a, b, 0))

RECURSIVE BigCmpAt(_, _, _)
BigCmpAt(a, b, i) ==
    IF i = 0 THEN 0
    ELSE IF a[i] < b[i] THEN -1
    ELSE IF a[i] > b[i] THEN 1
    ELSE BigCmpAt(a, b, i - 1)

\* -1, 0, 1 as a < b, a = b, a > b
BigCmp(a, b) ==
    IF Len(a) < Len(b) THEN -1
    ELSE IF Len(a) > Len(b) THEN 1
    ELSE BigCmpAt(a, b, Len(a))

RECURSIVE BigMulC(_, _, _)
BigMulC(a, k, c) ==
    IF a = <<>> THEN BigFromInt(c)
    ELSE LET x == Head(a) * k + c
         IN  <<x % Base>> \o BigMulC(Tail(a), k, x \div Base)

\* a * k for 0 <= k <= Base
BigMulSmall(a, k) == IF k = 0 THEN <<>> ELSE BigMulC(a, k, 0)

\* quotient and remainder of a by n, 0 < n <= Base, from the top limb down
RECURSIVE BigDivAt(_, _, _, _)
BigDivAt(a, n, i, r) ==
    IF i = 0 THEN [q |-> <<>>, r |-> r]
    ELSE LET x    == r * Base + a[i]
             rest == BigDivAt(a, n, i - 1, x % n)
         IN  [q |-> Append(rest.q, x \div n), r |-> rest.r]

BigDivSmall(a, n) ==
    LET d == BigDivAt(a, n, Len(a), 0)
    IN  [q |-> BigNorm(d.q), r |-> d.r]

RECURSIVE Zeros(_)
Zeros(n) == IF n = 0 THEN <<>> ELSE <<0>> \o Zeros(n - 1)

\* a * 2^k
BigShl(a, k) ==
    IF a = <<>> THEN <<>>
    ELSE Zeros(k \div 15) \o BigMulSmall(a, 2^(k % 15))

\* floor(a / 2^k)
BigShr(a, k) ==
    IF k \div 15 >= Len(a) THEN <<>>
    ELSE BigDivSmall(SubSeq(a, k \div 15 + 1, Len(a)), 2^(k % 15)).q

RECURSIVE BitLenInt(_)
BitLenInt(n) == IF n = 0 THEN 0 ELSE 1 + BitLenInt(n \div 2)

\* the number of binary digits of a
BitLen(a) == IF a = <<>> THEN 0 ELSE 15 * (Len(a) - 1) + BitLenInt(a[Len(a)])

BigOdd(a) == a # <<>> /\ Head(a) % 2 = 1

----------------------------------------------------------------------------
(* f64: IEEE 754 binary64 with round-to-nearest-even.  A finite value is   *)
(*     [k |-> "fin", s |-> sign bit, m |-> significand, e |-> exponent]    *)
(* of value (-1)^s * m * 2^e, in the form the encoding fixes: m has        *)
(* exactly Precision bits (a normal number), or fewer and e = MinExp (a    *)
(* subnormal or a zero).  NaN is one value: payloads are not told apart.   *)

Precision == 53
MinExp == -1074
MaxExp == 971

NaN    == [k |-> "nan", s |-> 0, m |-> <<>>, e |-> 0]
PosInf == [k |-> "inf", s |-> 0, m |-> <<>>, e |-> 0]
NegInf == [k |-> "inf", s |-> 1, m |-> <<>>, e |-> 0]

Inf(s) == IF s = 0 THEN PosInf ELSE NegInf

Pack(s, m, e) ==
    IF e > MaxExp THEN Inf(s) ELSE [k |-> "fin", s |-> s, m |-> m, e |-> e]

\* the f64 nearest to (-1)^s * (M * 2^E + t), ties to even, where 0 < t < 2^E if
\* sticky and t = 0 otherwise (sticky only with M of more than Precision bits)
Round(s, M, E, sticky) ==
    IF M = <<>> THEN Pack(s, <<>>, MinExp)
    ELSE LET q == Max(E + BitLen(M) - Precision, MinExp)
         IN  IF q > MaxExp THEN Inf(s)
             ELSE IF q <= E THEN Pack(s, BigShl(M, E - q), q)
             ELSE LET k    == q - E
                      m0   == BigShr(M, k)
                      rem  == BigSub(M, BigShl(m0, k))
                      c    == BigCmp(rem, BigShl(<<1>>, k - 1))
                      up   == c > 0 \/ (c = 0 /\ (sticky \/ BigOdd(m0)))
                      m1   == IF up THEN BigAdd(m0, <<1>>) ELSE m0
                  IN  IF BitLen(m1) > Precision
                      THEN Pack(s, BigShr(m1, 1), q + 1)
                      ELSE Pack(s, m1, q)

\* the literal n.0 for an integer n
Whole(n) == Round(IF n < 0 THEN 1 ELSE 0, BigFromInt(Abs(n)), 0, FALSE)

\* the literal of value n / 2^j
Dyadic(n, j) == Round(IF n < 0 THEN 1 ELSE 0, BigFromInt(Abs(n)), -j, FALSE)

\* the literal -0.0
NegZero == Pack(1, <<>>, MinExp)

IsZero(a) == a.k = "fin" /\ a.m = <<>>

\* |a| < |b| for a, b not NaN
MagLt(a, b) ==
    IF a.k = "inf" THEN FALSE
    ELSE IF b.k = "inf" THEN TRUE
    ELSE a.e < b.e \/ (a.e = b.e /\ BigCmp(a.m, b.m) < 0)

\* a < b on f64: false whenever an operand is NaN
f64_lt(a, b) ==
    IF a.k = "nan" \/ b.k = "nan" THEN FALSE
    ELSE IF IsZero(a) /\ IsZero(b) THEN FALSE
    ELSE IF a.s # b.s THEN a.s = 1
    ELSE IF a.s = 0 THEN MagLt(a, b) ELSE MagLt(b, a)

\* a > b on f64
f64_gt(a, b) == f64_lt(b, a)

\* a >= b on f64: false whenever an operand is NaN
f64_ge(a, b) ==
    IF a.k = "nan" \/ b.k = "nan" THEN FALSE ELSE ~f64_lt(a, b)

\* a + b on f64.  An operand below a quarter of the unit in the last place of
\* the other one does not change the rounded sum.
f64_add(a, b) ==
    IF a.k = "nan" \/ b.k = "nan" THEN NaN
    ELSE IF a.k = "inf" /\ b.k = "inf" THEN (IF a.s = b.s THEN a ELSE NaN)
    ELSE IF a.k = "inf" THEN a
    ELSE IF b.k = "inf" THEN b
    ELSE IF IsZero(a) /\ IsZero(b)
    THEN (IF a.s = b.s THEN a ELSE Pack(0, <<>>, MinExp))
    ELSE IF IsZero(a) THEN b
    ELSE IF IsZero(b) THEN a
    ELSE IF a.e - b.e > Precision + 2 THEN a
    ELSE IF b.e - a.e > Precision + 2 THEN b
    ELSE LET E  == Min(a.e, b.e)
             A  == BigShl(a.m, a.e - E)
             B  == BigShl(b.m, b.e - E)
             c  == BigCmp(A, B)
         IN  IF a.s = b.s THEN Round(a.s, BigAdd(A, B), E, FALSE)
             ELSE IF c = 0 THEN Pack(0, <<>>, MinExp)
             ELSE IF c > 0 THEN Round(a.s, BigSub(A, B), E, FALSE)
             ELSE Round(b.s, BigSub(B, A), E, FALSE)

\* bits the quotient is carried to before it is rounded
DivExtra == 30

\* a / (len as f64) for a count 1 <= len < Base
f64_div(a, len) ==
    IF a.k # "fin" \/ a.m = <<>> THEN a
    ELSE LET d == BigDivSmall(BigShl(a.m, DivExtra), len)
         IN  Round(a.s, d.q, a.e - DivExtra, d.r # 0)

\* iter().sum::<f64>(): a left fold of + from the neutral element -0.0
RECURSIVE f64_fold(_, _)
f64_fold(acc, s) ==
    IF s = <<>> THEN acc ELSE f64_fold(f64_add(acc, Head(s)), Tail(s))

f64_sum(s) == f64_fold(NegZero, s)

----------------------------------------------------------------------------
(* Option, Result and the values a call returns.  One record shape for     *)
(* every return value: tag names the variant.                              *)

None    == <<>>
Some(x) == <<x>>

Ret(tag, msg, val, text) == [tag |-> tag, msg |-> msg, val |-> val, text |-> text]

RetUnit      == Ret("Unit", "", <<>>, <<>>)      \* nothing returned yet / a constructor
RetOk        == Ret("Ok", "", <<>>, <<>>)        \* Ok(())
RetErr(m)    == Ret("Err", m, <<>>, <<>>)        \* Err(m)
RetOption(o) == Ret(IF o = None THEN "None" ELSE "Some", "", o, <<>>)
RetString(t) == Ret("String", "", <<>>, <<t>>)

----------------------------------------------------------------------------
(* struct Student and impl Student *)

\* lower and upper limit of an accepted grade
MinGrade == 0
MaxGrade == 100

\* the literals 0.0 and 100.0 of add_grade
LowerLimit == Whole(MinGrade)
UpperLimit == Whole(MaxGrade)

ErrRange == "Grade must be between 0 and 100"

\* Student::new
new(name) == [name |-> name, grades |-> <<>>, letter_grade |-> None]

\* the grades main adds to the student at index i of its roster: 85.0 and 92.0
\* to Alice, 75.0 and 88.0 to Bob
MainScores(i) ==
    IF i = 1 THEN {Whole(85), Whole(92)} ELSE {Whole(75), Whole(88)}

\* the scores tried on student i: those of main and 150.0, out of range
Scores(i) == MainScores(i) \cup {Whole(150)}

\* the f64 next below a normal x that is not a power of two
Pred(x) == [x EXCEPT !.m = BigSub(x.m, <<1>>)]

\* scores at and around the limits of the range: -inf, -0.5, -0.0, 0.0,
\* 79.99999999999999, 100.0, 100.5, +inf, NaN
EdgeScores ==
    {NegInf, Dyadic(-1, 1), NegZero, Whole(0), Pred(Whole(80)), Whole(100),
     Dyadic(201, 1), PosInf, NaN}

\* self.grades.iter().sum::<f64>() / self.grades.len() as f64
f64_mean(g) == f64_div(f64_sum(g), Len(g))

\* mutant: an empty history averages to zero
calculate_average_zero(self) ==
    IF self.grades = <<>>
    THEN Some(Whole(0))
    ELSE Some(f64_mean(self.grades))

\* Student::calculate_average
calculate_average(self) ==
    IF self.grades = <<>>
    THEN None
    ELSE Some(f64_mean(self.grades))

\* the literals 90.0, 80.0, 70.0, 60.0 of the match guards
GuardA == Whole(90)
GuardB == Whole(80)
GuardC == Whole(70)
GuardD == Whole(60)

\* mutant: the guards compare with > instead of >=
letter_grade_for_strict(avg) ==
    IF f64_gt(avg, GuardA) THEN "A"
    ELSE IF f64_gt(avg, GuardB) THEN "B"
    ELSE IF f64_gt(avg, GuardC) THEN "C"
    ELSE IF f64_gt(avg, GuardD) THEN "D"
    ELSE "F"

\* the match of calculate_letter_grade: the first arm whose guard holds
letter_grade_for(avg) ==
    IF f64_ge(avg, GuardA) THEN "A"
    ELSE IF f64_ge(avg, GuardB) THEN "B"
    ELSE IF f64_ge(avg, GuardC) THEN "C"
    ELSE IF f64_ge(avg, GuardD) THEN "D"
    ELSE "F"

\* Student::calculate_letter_grade: self after the call
calculate_letter_grade(self) ==
    LET avg == calculate_average(self)
    IN  [self EXCEPT !.letter_grade =
            IF avg = None THEN None ELSE Some(letter_grade_for(avg[1]))]

\* mutant: the grade is pushed before it is validated
add_grade_push_first(self, grade) ==
    LET pushed == [self EXCEPT !.grades = Append(self.grades, grade)]
    IN  IF f64_lt(grade, LowerLimit) \/ f64_gt(grade, UpperLimit)
        THEN [self |-> pushed, ret |-> RetErr(ErrRange)]
        ELSE [self |-> calculate_letter_grade(pushed), ret |-> RetOk]

\* mutant: the upper limit is excluded (grade >= 100.0 is rejected)
add_grade_exclusive(self, grade) ==
    IF f64_lt(grade, LowerLimit) \/ f64_ge(grade, UpperLimit)
    THEN [self |-> self, ret |-> RetErr(ErrRange)]
    ELSE [self |-> calculate_letter_grade(
                       [self EXCEPT !.grades = Append(self.grades, grade)]),
          ret  |-> RetOk]

\* mutant: the letter is computed before the push, from the old average
add_grade_stale(self, grade) ==
    IF f64_lt(grade, LowerLimit) \/ f64_gt(grade, UpperLimit)
    THEN [self |-> self, ret |-> RetErr(ErrRange)]
    ELSE [self |-> [calculate_letter_grade(self)
                        EXCEPT !.grades = Append(self.grades, grade)],
          ret  |-> RetOk]

\* mutant: the grade is inserted at the front (grades.insert(0, grade))
add_grade_front(self, grade) ==
    IF f64_lt(grade, LowerLimit) \/ f64_gt(grade, UpperLimit)
    THEN [self |-> self, ret |-> RetErr(ErrRange)]
    ELSE [self |-> calculate_letter_grade(
                       [self EXCEPT !.grades = <<grade>> \o self.grades]),
          ret  |-> RetOk]

\* Student::add_grade: self after the call and the value returned
add_grade(self, grade) ==
    IF f64_lt(grade, LowerLimit) \/ f64_gt(grade, UpperLimit)
    THEN [self |-> self, ret |-> RetErr(ErrRange)]
    ELSE [self |-> calculate_letter_grade(
                       [self EXCEPT !.grades = Append(self.grades, grade)]),
          ret  |-> RetOk]

\* one argument of format!: a literal, or a value under {} / {:?}
Lit(s)      == [fmt |-> "lit", text |-> s, val |-> <<>>]
Display(x)  == [fmt |-> "{}", text |-> "", val |-> <<x>>]
Debug(xs)   == [fmt |-> "{:?}", text |-> "", val |-> xs]

\* mutant: the average is unwrapped with a default of zero
generate_report_zero(self) ==
    LET a      == calculate_average(self)
        avg    == IF a = None THEN Display(Whole(0)) ELSE Display(a[1])
        letter == IF self.letter_grade = None
                  THEN Lit("N/A") ELSE Lit(self.letter_grade[1])
    IN  [Student     |-> Lit(self.name),
         Grades      |-> Debug(self.grades),
         Average     |-> avg,
         LetterGrade |-> letter]

\* Student::generate_report: the four lines of the text
generate_report(self) ==
    LET a      == calculate_average(self)
        avg    == IF a = None THEN Lit("No grades yet") ELSE Display(a[1])
        letter == IF self.letter_grade = None
                  THEN Lit("N/A") ELSE Lit(self.letter_grade[1])
    IN  [Student     |-> Lit(self.name),
         Grades      |-> Debug(self.grades),
         Average     |-> avg,
         LetterGrade |-> letter]

----------------------------------------------------------------------------
(* The caller: main's roster and the calls made on it *)

\* the students main creates, in order
RosterNames == <<"Alice", "Bob">>

\* the number of grades recorded in the roster r
RECURSIVE Recorded(_)
Recorded(r) ==
    IF r = <<>> THEN 0 ELSE Len(Head(r).grades) + Recorded(Tail(r))

NoCall == [op |-> "none", student |-> 0, grade |-> None, ret |-> RetUnit]

\* is_prime's Result<bool, String>
PrimeRet(tag, b, msg) == [tag |-> tag, b |-> b, msg |-> msg]

NoPrimeRet == PrimeRet("Unit", FALSE, "")

\* nothing called yet on the roster, the letter mapping or is_prime
RosterIdle == students = <<>> /\ call = NoCall /\ shown = <<>>
LetterIdle == l_avg = NaN /\ l_letter = ""
PrimeIdle  == p_n = 0 /\ p_i = 0 /\ p_pc = "idle" /\ p_ret = NoPrimeRet

Init == RosterIdle /\ LetterIdle /\ PrimeIdle

Others == <<l_avg, l_letter, p_n, p_i, p_pc, p_ret>>

\* students.push(Student::new(name))
Create ==
    /\ Len(students) < Len(RosterNames)
    /\ students' = Append(students, new(RosterNames[Len(students) + 1]))
    /\ shown' = Append(shown, None)
    /\ call' = [op |-> "new", student |-> Len(students) + 1,
                grade |-> None, ret |-> RetUnit]
    /\ UNCHANGED Others

\* students[i].add_grade(s); an accepted grade is taken only below the cap
AddGrade(i, s, cap) ==
    LET r == add_grade(students[i], s)
    IN  /\ r.ret.tag = "Ok" => Recorded(students) < cap
        /\ students' = [students EXCEPT ![i] = r.self]
        /\ shown' = IF r.ret.tag = "Ok" THEN [shown EXCEPT ![i] = None] ELSE shown
        /\ call' = [op |-> "add_grade", student |-> i,
                    grade |-> Some(s), ret |-> r.ret]
        /\ UNCHANGED Others

\* students[i].calculate_average()
Average(i) ==
    /\ call' = [op |-> "average", student |-> i, grade |-> None,
                ret |-> RetOption(calculate_average(students[i]))]
    /\ UNCHANGED <<students, shown>>
    /\ UNCHANGED Others

\* what the caller has displayed once text is displayed too
Displayed(before, text) ==
    IF before = <<>> THEN <<text>> ELSE <<before[Len(before)], text>>

\* mutant: the report drains the grades it prints
ReportDrain(i) ==
    LET text == generate_report(students[i])
    IN  /\ call' = [op |-> "report", student |-> i, grade |-> None,
                    ret |-> RetString(text)]
        /\ shown' = [shown EXCEPT ![i] = Displayed(shown[i], text)]
        /\ students' = [students EXCEPT ![i].grades = <<>>]
        /\ UNCHANGED Others

\* students[i].generate_report()
Report(i) ==
    LET text == generate_report(students[i])
    IN  /\ call' = [op |-> "report", student |-> i, grade |-> None,
                    ret |-> RetString(text)]
        /\ shown' = [shown EXCEPT ![i] = Displayed(shown[i], text)]
        /\ UNCHANGED students
        /\ UNCHANGED Others

\* main, with its calls in any order and on either student
Next ==
    \/ Create
    \/ \E i \in 1..Len(students) : \E s \in Scores(i) : AddGrade(i, s, MaxGrades)
    \/ \E i \in 1..Len(students) : Average(i)
    \/ \E i \in 1..Len(students) : Report(i)

Spec == Init /\ [][Next]_vars

\* a caller that adds the scores at the limits of the range and reads the
\* average
NextEdge ==
    \/ Create
    \/ \E i \in 1..Len(students) :
          \E s \in EdgeScores : AddGrade(i, s, MaxEdgeGrades)
    \/ \E i \in 1..Len(students) : Average(i)

SpecEdge == Init /\ [][NextEdge]_vars

\* the student new(name) becomes by add_grade of each score of h in order
RECURSIVE Built(_, _)
Built(name, h) ==
    IF h = <<>> THEN new(name)
    ELSE add_grade(Built(name, SubSeq(h, 1, Len(h) - 1)), h[Len(h)]).self

\* the students the reports are compared on: either name, with each history of
\* at most MaxReportGrades of the first two scores of main
ReportScores == {Whole(85), Whole(92)}

ReportStudents ==
    {Built(name, h) : name \in {"Alice", "Bob"},
                      h \in UNION {[1..n -> ReportScores] : n \in 0..MaxReportGrades}}

\* a roster of two students, who may be equal in every field, nothing displayed
InitReport ==
    /\ LetterIdle /\ PrimeIdle
    /\ students \in {<<a, b>> : a \in ReportStudents, b \in ReportStudents}
    /\ shown = <<None, None>>
    /\ call = NoCall

\* generate_report and calculate_average called in any order, no add_grade
NextReport ==
    \/ \E i \in 1..Len(students) : Report(i)
    \/ \E i \in 1..Len(students) : Average(i)

SpecReport == InitReport /\ [][NextReport]_vars

----------------------------------------------------------------------------
(* The letter mapping on its own: the match applied to one average *)

Letters == {"A", "B", "C", "D", "F"}

\* the bounds of the bands
Thresholds == {60, 70, 80, 90}

\* the averages tried: the f64 quotients k / d in [0, 100] for d up to AvgDen,
\* the f64 next below each bound, -0.0, the infinities and NaN
Averages ==
    UNION {{f64_div(Whole(k), d) : k \in 0..(MaxGrade * d)} : d \in 1..AvgDen}
        \cup {Pred(Whole(t)) : t \in Thresholds}
        \cup {NegZero, NaN, PosInf, NegInf}

InitLetter ==
    /\ RosterIdle /\ PrimeIdle
    /\ l_avg \in Averages
    /\ l_letter = ""

\* .map(|avg| match avg { ... })
ApplyLetter ==
    /\ l_letter = ""
    /\ l_letter' = letter_grade_for(l_avg)
    /\ UNCHANGED <<students, call, shown, l_avg, p_n, p_i, p_pc, p_ret>>

NextLetter == ApplyLetter

SpecLetter == InitLetter /\ [][NextLetter]_vars

----------------------------------------------------------------------------
(* is_prime *)

\* mutant: the square root is rounded down one too far (range 2..sqrt)
sqrt_as_i32_short(n) ==
    (CHOOSE r \in 0..n : r * r <= n /\ (r + 1) * (r + 1) > n) - 1

\* (n as f64).sqrt() as i32 for n >= 0: n is exact in f64, sqrt is correctly
\* rounded and, for an i32, never rounds up to the next integer, so the cast
\* truncates to the integer square root
sqrt_as_i32(n) == CHOOSE r \in 0..n : r * r <= n /\ (r + 1) * (r + 1) > n

ErrNegative == "Negative numbers cannot be prime"

InitPrime ==
    /\ RosterIdle /\ LetterIdle
    /\ p_n \in (-MaxPrimeN)..MaxPrimeN
    /\ p_i = 0
    /\ p_pc = "start"
    /\ p_ret = NoPrimeRet

RosterAndLetter == <<students, call, shown, l_avg, l_letter>>

\* the two early returns, then the range 2..=sqrt is entered
PrimeEnter ==
    /\ p_pc = "start"
    /\ IF p_n < 0
       THEN p_ret' = PrimeRet("Err", FALSE, ErrNegative) /\ p_pc' = "done" /\ p_i' = p_i
       ELSE IF p_n <= 1
       THEN p_ret' = PrimeRet("Ok", FALSE, "") /\ p_pc' = "done" /\ p_i' = p_i
       ELSE p_i' = 2 /\ p_pc' = "loop" /\ p_ret' = p_ret
    /\ UNCHANGED <<p_n>>
    /\ UNCHANGED RosterAndLetter

\* one iteration of the for loop: i is in the range
PrimeStep ==
    /\ p_pc = "loop"
    /\ p_i <= sqrt_as_i32(p_n)
    /\ IF p_n % p_i = 0
       THEN p_ret' = PrimeRet("Ok", FALSE, "") /\ p_pc' = "done" /\ p_i' = p_i
       ELSE p_i' = p_i + 1 /\ p_pc' = p_pc /\ p_ret' = p_ret
    /\ UNCHANGED <<p_n>>
    /\ UNCHANGED RosterAndLetter

\* the range is exhausted: Ok(true)
PrimeExit ==
    /\ p_pc = "loop"
    /\ p_i > sqrt_as_i32(p_n)
    /\ p_ret' = PrimeRet("Ok", TRUE, "")
    /\ p_pc' = "done"
    /\ UNCHANGED <<p_n, p_i>>
    /\ UNCHANGED RosterAndLetter

NextPrime == PrimeEnter \/ PrimeStep \/ PrimeExit

\* the body runs to its return: nothing else is scheduled
SpecPrime == InitPrime /\ [][NextPrime]_vars /\ WF_vars(NextPrime)

----------------------------------------------------------------------------
(* Properties.  The range, the mean and the bands are restated here on the *)
(* integer part of a value, not through the f64 comparisons above.         *)

\* the largest integer not above a finite x, for |x| < 2^30
Floor(x) ==
    LET whole == IF x.e >= 0 THEN BigShl(x.m, x.e) ELSE BigShr(x.m, -x.e)
        exact == x.e >= 0 \/ BigShl(whole, -x.e) = x.m
    IN  IF x.s = 0 THEN BigToInt(whole)
        ELSE IF exact THEN -BigToInt(whole) ELSE -BigToInt(whole) - 1

\* a finite x is an integer
IsWhole(x) == x.e >= 0 \/ BigShl(BigShr(x.m, -x.e), -x.e) = x.m

\* s lies in [0, 100]
InRange(s) ==
    /\ s.k = "fin"
    /\ 0 <= Floor(s)
    /\ Floor(s) < 100 \/ (Floor(s) = 100 /\ IsWhole(s))

\* s lies below 0 or above 100 (the infinities do, NaN does not)
OutOfRange(s) == s.k = "inf" \/ (s.k = "fin" /\ ~InRange(s))

IsPrefix(a, b) == Len(a) <= Len(b) /\ SubSeq(b, 1, Len(a)) = a

\* the step just taken is students[i].add_grade(..)
AddedTo(i) == call'.op = "add_grade" /\ call'.student = i

\* C1: add_grade of a score below 0 or above 100 returns Err and leaves the
\* student's name, grade history and letter_grade as they were.
C1_RejectLeavesStudent ==
    [][ (call'.op = "add_grade" /\ OutOfRange(call'.grade[1]))
          => (call'.ret.tag = "Err" /\ students' = students) ]_vars

\* a score of 100.5 was rejected for a student who already has a grade and a letter
C1_Witness ==
    /\ call.op = "add_grade"
    /\ call.grade = Some(Dyadic(201, 1))
    /\ call.ret = RetErr(ErrRange)
    /\ students[call.student].grades = <<Whole(100)>>
    /\ students[call.student].letter_grade = Some("A")

\* C2: add_grade of a score in [0, 100] returns Ok and the history afterwards is
\* the previous history with the score appended last; the name is unchanged.
C2_AcceptAppendsLast ==
    [][ (call'.op = "add_grade" /\ InRange(call'.grade[1]))
          => LET i == call'.student
             IN  /\ call'.ret.tag = "Ok"
                 /\ students'[i].grades =
                        Append(students[i].grades, call'.grade[1])
                 /\ students'[i].name = students[i].name ]_vars

\* both limits were accepted, 0 first and 100 after it
C2_Witness ==
    /\ call.op = "add_grade"
    /\ call.grade = Some(Whole(100))
    /\ call.ret = RetOk
    /\ students[call.student].grades = <<Whole(0), Whole(100)>>

\* C3: every element of every grade history lies in [0, 100].
C3_GradesInRange ==
    \A i \in 1..Len(students) :
        \A j \in 1..Len(students[i].grades) :
            InRange(students[i].grades[j])

\* every grade of g is finite and not below zero
Plain(g) == \A j \in 1..Len(g) : g[j].k = "fin" /\ (g[j].s = 0 \/ g[j].m = <<>>)

\* the least exponent among the grades of g that are not zero (0 if there is none)
RECURSIVE LeastExp(_)
LeastExp(g) ==
    IF g = <<>> THEN 0
    ELSE IF Head(g).m = <<>> THEN LeastExp(Tail(g))
    ELSE Min(Head(g).e, LeastExp(Tail(g)))

\* the sum of a plain history, not rounded, in units of 2^e0
RECURSIVE SumAt(_, _)
SumAt(g, e0) ==
    IF g = <<>> THEN <<>>
    ELSE BigAdd(BigShl(Head(g).m, Head(g).e - e0), SumAt(Tail(g), e0))

\* the arithmetic mean of a plain history is at least t
MeanAtLeast(g, t) ==
    LET e0 == LeastExp(g)
    IN  BigCmp(SumAt(g, e0), BigShl(BigFromInt(t * Len(g)), -e0)) >= 0

\* the band of the arithmetic mean of a plain history
LetterOfMean(g) ==
    IF MeanAtLeast(g, 90) THEN "A"
    ELSE IF MeanAtLeast(g, 80) THEN "B"
    ELSE IF MeanAtLeast(g, 70) THEN "C"
    ELSE IF MeanAtLeast(g, 60) THEN "D"
    ELSE "F"

\* C4 as stated: letter_grade is None exactly when the history is empty, and
\* otherwise it is the letter of the band the arithmetic mean of the history
\* lies in (stated for the histories whose grades are all finite).
C4_LetterOfArithmeticMean ==
    \A i \in 1..Len(students) :
        LET st == students[i]
        IN  /\ (st.letter_grade = None) <=> (st.grades = <<>>)
            /\ (st.grades # <<>> /\ Plain(st.grades)) =>
                   st.letter_grade = Some(LetterOfMean(st.grades))

\* the unit in the last place of an f64 from 2^6 = 64 up to 128 is 2^UlpExp
UlpExp == 6 - (Precision - 1)

\* the arithmetic mean of a plain history of n grades, moved up (dir = 1) or
\* down (dir = -1) by n units in the last place, is at least t
MeanNearlyAtLeast(g, t, dir) ==
    LET n     == Len(g)
        e0    == LeastExp(g)
        E     == Min(e0, UlpExp)
        total == BigShl(SumAt(g, e0), e0 - E)
        slack == BigShl(BigFromInt(n * n), UlpExp - E)
        bound == BigShl(BigFromInt(t * n), -E)
    IN  IF dir = 1 THEN BigCmp(BigAdd(total, slack), bound) >= 0
        ELSE BigCmp(total, BigAdd(bound, slack)) >= 0

\* the lower bound of the band of a letter, and the bound of the band above it
LowerBound(c) ==
    IF c = "A" THEN 90 ELSE IF c = "B" THEN 80 ELSE IF c = "C" THEN 70
    ELSE IF c = "D" THEN 60 ELSE 0
UpperBound(c) ==
    IF c = "B" THEN 90 ELSE IF c = "C" THEN 80 ELSE IF c = "D" THEN 70
    ELSE IF c = "F" THEN 60 ELSE 101

\* C4 amended: letter_grade is None exactly when the history is empty, and
\* otherwise it is the letter the match gives for the average of the current
\* history as calculate_average returns it (the f64 sum of the grades in order,
\* divided by the count).  That letter is the one of the band of the arithmetic
\* mean, or of the band next to it when the mean lies within one unit in the
\* last place per grade of the bound between the two; a history that holds NaN
\* has the letter F.
C4_LetterNeverStale ==
    \A i \in 1..Len(students) :
        LET st == students[i]
            g  == st.grades
        IN  /\ (st.letter_grade = None) <=> (g = <<>>)
            /\ g # <<>> =>
                   st.letter_grade =
                       Some(letter_grade_for(calculate_average(st)[1]))
            /\ (g # <<>> /\ Plain(g)) =>
                   /\ st.letter_grade[1] \in Letters
                   /\ MeanNearlyAtLeast(g, LowerBound(st.letter_grade[1]), 1)
                   /\ ~MeanNearlyAtLeast(g, UpperBound(st.letter_grade[1]), -1)
            /\ (\E j \in 1..Len(g) : g[j].k = "nan") =>
                   st.letter_grade = Some("F")

\* 79.99999999999999 after 100.0: the sum rounds up to 180.0, so the average is
\* 90.0 and the letter recomputed by the second add_grade is A, while the
\* arithmetic mean of the two grades lies below 90
C4_Witness ==
    /\ call.op = "add_grade"
    /\ call.ret = RetOk
    /\ students[call.student].grades = <<Whole(100), Pred(Whole(80))>>
    /\ calculate_average(students[call.student]) = Some(Whole(90))
    /\ ~MeanAtLeast(students[call.student].grades, 90)
    /\ students[call.student].letter_grade = Some("A")

\* C5: the match yields one of the five letters for every average, and for a
\* finite average: A from 90, B on [80, 90), C on [70, 80), D on [60, 70),
\* F below 60; +infinity gives A and -infinity F.
C5_LetterBands ==
    l_letter # "" =>
        /\ l_letter \in Letters
        /\ l_avg = PosInf => l_letter = "A"
        /\ l_avg = NegInf => l_letter = "F"
        /\ l_avg.k = "fin" =>
             LET n == Floor(l_avg)
             IN  /\ n >= 90 => l_letter = "A"
                 /\ (80 <= n /\ n < 90) => l_letter = "B"
                 /\ (70 <= n /\ n < 80) => l_letter = "C"
                 /\ (60 <= n /\ n < 70) => l_letter = "D"
                 /\ n < 60 => l_letter = "F"

\* 89.99999999999999, the f64 next below the bound of A, was mapped to B
C5_Witness == l_avg = Pred(Whole(90)) /\ l_letter = "B"

\* every grade of g is a whole number
AllWhole(g) == \A j \in 1..Len(g) : g[j].k = "fin" /\ IsWhole(g[j])

\* a is within h halves of a unit in its last place of the arithmetic mean of
\* the plain history g:  |a * n - sum| <= n * h * 2^(a.e - 1), n the count
IsQuotient(a, g, h) ==
    LET n  == Len(g)
        e0 == LeastExp(g)
        E  == (IF a.m = <<>> THEN e0 ELSE Min(a.e, e0)) - 1
        x  == IF a.m = <<>> THEN <<>> ELSE BigShl(BigMulSmall(a.m, n), a.e - E)
        y  == BigShl(SumAt(g, e0), e0 - E)
        d  == IF BigCmp(x, y) >= 0 THEN BigSub(x, y) ELSE BigSub(y, x)
    IN  /\ a.k = "fin"
        /\ a.s = 0 \/ a.m = <<>>
        /\ a.m = <<>> => d = <<>>
        /\ a.m # <<>> => BigCmp(d, BigShl(BigFromInt(n * h), a.e - 1 - E)) <= 0

NoGradesYet == Lit("No grades yet")
NotAvailable == Lit("N/A")

\* the four lines of text t show the fields of student st: its name, its
\* history, the placeholder or the f64 nearest to the mean of its whole-number
\* grades, and the placeholder or its letter
ShowsFields(t, st) ==
    /\ t.Student = Lit(st.name)
    /\ t.Grades = Debug(st.grades)
    /\ st.grades = <<>> => t.Average = NoGradesYet
    /\ (st.grades # <<>> /\ AllWhole(st.grades)) =>
           /\ t.Average.fmt = "{}"
           /\ Len(t.Average.val) = 1
           /\ IsQuotient(t.Average.val[1], st.grades, 1)
    /\ st.letter_grade = None => t.LetterGrade = NotAvailable
    /\ st.letter_grade # None => t.LetterGrade = Lit(st.letter_grade[1])

C8_Placeholders ==
    /\ \A i \in 1..Len(students) :
          LET st == students[i]
              t  == generate_report(st)
          IN  /\ st.grades = <<>> =>
                     /\ calculate_average(st) = None
                     /\ t.Average = NoGradesYet
                     /\ t.LetterGrade = NotAvailable
              /\ st.grades # <<>> =>
                     /\ t.Average.fmt = "{}"
                     /\ t.Average # NoGradesYet
                     /\ t.LetterGrade # NotAvailable
                     /\ t.LetterGrade.text \in Letters
    /\ call.op = "report" =>
          call.ret.text = <<generate_report(students[call.student])>>
    /\ (call.op = "add_grade" /\ call.ret.tag = "Err"
            /\ students[call.student].grades = <<>>)
          => students[call.student].letter_grade = None

\* Bob's only score, 150, was rejected, and the report displayed for him shows
\* the two placeholders
C8_Witness ==
    /\ call.op = "add_grade"
    /\ call.grade = Some(Whole(150))
    /\ call.ret.tag = "Err"
    /\ students[call.student].name = "Bob"
    /\ students[call.student].grades = <<>>
    /\ shown[call.student] # None
    /\ shown[call.student][1].Average = NoGradesYet
    /\ shown[call.student][1].LetterGrade = NotAvailable

\* C9: in every step no student leaves the roster, every name stays, every
\* history keeps its old elements as a prefix and grows by one exactly on an Ok
\* add_grade on that student and by nothing otherwise, and an add_grade on one
\* student leaves the other students as they were.
C9_AppendOnly ==
    [][ /\ Len(students') >= Len(students)
        /\ \A i \in 1..Len(students) :
              /\ students'[i].name = students[i].name
              /\ IsPrefix(students[i].grades, students'[i].grades)
              /\ Len(students'[i].grades) - Len(students[i].grades) =
                     (IF AddedTo(i) /\ call'.ret.tag = "Ok" THEN 1 ELSE 0)
              /\ ~AddedTo(i) => students'[i] = students[i] ]_vars

\* main's four grades are recorded, Bob's 88 last
C9_Witness ==
    /\ call.op = "add_grade"
    /\ call.ret = RetOk
    /\ call.student = 2
    /\ students[1].grades = <<Whole(85), Whole(92)>>
    /\ students[2].grades = <<Whole(75), Whole(88)>>

\* n has a divisor d with 2 <= d < n
HasDivisor(n) == \E d \in 2..(n - 1) : n % d = 0

\* C10: is_prime returns: Err for a negative n, Ok(false) for 0 and 1, and for
\* n >= 2 Ok(true) exactly when n has no divisor d with 2 <= d < n; the loop
\* variable stays within 2 .. sqrt + 1.
C10_IsPrime ==
    /\ <>(p_pc = "done")
    /\ [](p_pc = "loop" => (2 <= p_i /\ p_i <= sqrt_as_i32(p_n) + 1))
    /\ [](p_pc = "done" =>
            /\ p_n < 0 => p_ret = PrimeRet("Err", FALSE, ErrNegative)
            /\ p_n \in {0, 1} => p_ret = PrimeRet("Ok", FALSE, "")
            /\ p_n >= 2 => p_ret = PrimeRet("Ok", ~HasDivisor(p_n), ""))

\* 25, whose only divisor is its square root, was found not prime at i = 5
C10_Witness ==
    p_pc = "done" /\ p_n = 25 /\ p_i = 5 /\ p_ret = PrimeRet("Ok", FALSE, "")

====
